---- MODULE Spec2Model ----
(***************************************************************************)
(* State-machine model of PlexPlaylistDownload.py: list_playlists and      *)
(* download_playlist, one step per remote or filesystem call.  The Plex    *)
(* server and the filesystem are the environment: every remote or          *)
(* filesystem call either returns or raises one of the errors it can       *)
(* raise.  Strings that the code takes apart or builds (file names, paths) *)
(* are sequences of one-character strings.                                 *)
(***************************************************************************)
EXTENDS Integers, Sequences, FiniteSets

VARIABLES
    mode,       \* "list" | "download": the branch main() takes (args.list)
    options,    \* DownloadOptions: user, orderby, keep_original_filename, saveto
    pc,         \* position in the running function
    plex,       \* the local `plex`: "unbound" | "primary" | "managed"
    playlist,   \* the local `playlist`: [bound, server]
    saveto,     \* the local `saveto` (a path)
    stored,     \* the playlist's items in the order the server stores them
    items,      \* the local `items`: sequence of [id, files, attrs]
    idx,        \* position of the for loop over items (1-based)
    i,          \* the local `i`, 0 while unbound
    files,      \* the local `files`: paths returned by item.download
    fs,         \* the filesystem: path -> [item, part] (whose bytes it holds)
    out,        \* what has been printed
    calls,      \* remote and filesystem calls made so far: [op, via, item, result]
    renames,    \* os.rename calls performed: [item, src, dst]
    exc,        \* "None", or the exception that ended the function
    playlistsBySection  \* list mode: sequence of [section, lists]

vars == << mode, options, pc, plex, playlist, saveto, stored, items, idx, i, files,
           fs, out, calls, renames, exc, playlistsBySection >>

----------------------------------------------------------------------------
(* Bounds of the model *)

MaxItems == 3

----------------------------------------------------------------------------
(* Strings *)

None == "None"

Slash == "/"
Dot == "."

RFind(s, c) ==
    IF \E k \in 1..Len(s) : s[k] = c
    THEN CHOOSE k \in 1..Len(s) : s[k] = c /\ \A j \in (k+1)..Len(s) : s[j] # c
    ELSE 0

Digit(d) == <<"0", "1", "2", "3", "4", "5", "6", "7", "8", "9">>[d + 1]

RECURSIVE Decimal(_)
Decimal(n) == IF n < 10 THEN << Digit(n) >>
              ELSE Decimal(n \div 10) \o << Digit(n % 10) >>

RECURSIVE ZeroPad(_, _)
ZeroPad(s, width) == IF Len(s) >= width THEN s ELSE ZeroPad(<<"0">> \o s, width)

(* '%03d' % n, without padding: a format that forgot the width *)
Format03d_NoPad(n) == Decimal(n)

(* '%03d' % n *)
Format03d(n) == ZeroPad(Decimal(n), 3)

(* posixpath.splitext(p)[1]: the extension starts at the last dot of the last
   path component, unless that component has only leading dots before it *)
SplitextExt(p) ==
    LET sep == RFind(p, Slash)
        dot == RFind(p, Dot)
    IN  IF dot > sep /\ \E j \in (sep+1)..(dot-1) : p[j] # Dot
        THEN SubSeq(p, dot, Len(p))
        ELSE << >>

(* posixpath.dirname(p) *)
Dirname(p) ==
    LET head == SubSeq(p, 1, RFind(p, Slash))
        RECURSIVE RStrip(_)
        RStrip(h) == IF h # << >> /\ h[Len(h)] = Slash
                     THEN RStrip(SubSeq(h, 1, Len(h) - 1)) ELSE h
    IN  IF head # << >> /\ \E k \in 1..Len(head) : head[k] # Slash
        THEN RStrip(head) ELSE head

(* posixpath.join(a, b) *)
Join(a, b) ==
    IF b # << >> /\ b[1] = Slash THEN b
    ELSE IF a = << >> \/ a[Len(a)] = Slash THEN a \o b
    ELSE a \o << Slash >> \o b

(* './%s/' % s *)
DotSlash(s) == << Dot, Slash >> \o s \o << Slash >>

----------------------------------------------------------------------------
(* The environment: what the server can hold and what calls can raise *)

Users == { None, "Kids" }
SortKeys == { None, "year" }
SaveToArgs == { [isNone |-> TRUE, path |-> << >>],
                [isNone |-> FALSE, path |-> << "o" >>] }

Title == << "m" >>

ConnectErrors == { "Unauthorized", "Unreachable" }

F_a_mp3 == << "a", ".", "m" >>
F_001_m == << "0", "0", "1", ".", "m" >>
F_002_m == << "0", "0", "2", ".", "m" >>
F_c_t_g == << "c", ".", "t", ".", "g" >>
F_c_s == << "c", ".", "s" >>
F_hid == << ".", "h" >>
F_d_k == << "d", ".", "k" >>

(* The media items a playlist can hold: the file names item.download writes
   and the attributes getattr can find *)
ItemPool ==
    { [files |-> << F_a_mp3 >>,          attrs |-> [year |-> 2]],
      [files |-> << F_hid >>,            attrs |-> [year |-> 1]],
      [files |-> << F_001_m >>,          attrs |-> [year |-> 1]],
      [files |-> << F_c_t_g, F_c_s >>,   attrs |-> [year |-> 2]],
      [files |-> << F_a_mp3, F_002_m >>, attrs |-> [title |-> 1]],
      [files |-> << F_d_k, F_d_k >>,     attrs |-> [year |-> 1]],
      [files |-> << >>,                  attrs |-> [year |-> 2]] }

SeqsUpTo(S, n) == UNION { [1..k -> S] : k \in 0..n }

(* playlist.items(): the items in the playlist's stored order, each with its
   identity (its native position) *)
PlaylistItems ==
    { [k \in 1..Len(s) |-> [id |-> k, files |-> s[k].files, attrs |-> s[k].attrs]] :
        s \in SeqsUpTo(ItemPool, MaxItems) }

(* plex.playlists(): title and playlistType of each playlist *)
Catalogs ==
    { << >>,
      << [title |-> "Road Trip", playlistType |-> "audio"] >>,
      << [title |-> "Road Trip", playlistType |-> "audio"],
         [title |-> "Films", playlistType |-> "video"],
         [title |-> "Gym", playlistType |-> "audio"] >> }

----------------------------------------------------------------------------
(* Filesystem *)

NoFiles == [p \in {} |-> [item |-> 0, part |-> 0]]

Put(f, p, v) == [q \in (DOMAIN f) \cup {p} |-> IF q = p THEN v ELSE f[q]]

Remove(f, p) == [q \in (DOMAIN f) \ {p} |-> f[q]]

(* os.rename(src, dst) on an existing src: dst is replaced *)
Rename(f, src, dst) ==
    IF src = dst THEN f ELSE Remove(Put(f, dst, f[src]), src)

(* item.download(savepath): the paths it returns *)
DownloadPaths(savepath, item) ==
    [j \in 1..Len(item.files) |-> Join(savepath, item.files[j])]

(* item.download(savepath) having written its first n files, in order *)
RECURSIVE Written(_, _, _, _)
Written(f, savepath, item, n) ==
    IF n = 0 THEN f
    ELSE Put(Written(f, savepath, item, n - 1),
             Join(savepath, item.files[n]), [item |-> item.id, part |-> n])

----------------------------------------------------------------------------
Call(op, via, item, result) ==
    [op |-> op, via |-> via, item |-> item, result |-> result]

Init ==
    /\ mode \in { "list", "download" }
    /\ options \in [ user : Users, orderby : SortKeys,
                     keep_original_filename : BOOLEAN, saveto : SaveToArgs ]
    /\ pc = "connect"
    /\ plex = "unbound"
    /\ playlist = [bound |-> FALSE, server |-> "unbound"]
    /\ saveto = << >>
    /\ stored = << >>
    /\ items = << >>
    /\ idx = 0
    /\ i = 0
    /\ files = << >>
    /\ fs = NoFiles
    /\ out = << >>
    /\ calls = << >>
    /\ renames = << >>
    /\ exc = None
    /\ playlistsBySection = << >>

(* The frame of a step that touches neither the export state nor the listing *)
ExportUnchanged == UNCHANGED << saveto, stored, items, idx, i, files, fs, renames >>

----------------------------------------------------------------------------
(* list_playlists *)

ListConnectOk ==
    /\ mode = "list" /\ pc = "connect"
    /\ plex' = "primary"
    /\ calls' = Append(calls, Call("connect", "primary", 0, "ok"))
    /\ out' = out \o << "Connecting to plex...", " done" >>
    /\ pc' = IF options.user # None THEN "switch" ELSE "playlists"
    /\ ExportUnchanged
    /\ UNCHANGED << mode, options, playlist, exc, playlistsBySection >>

ListConnectFail ==
    /\ mode = "list" /\ pc = "connect"
    /\ \E e \in ConnectErrors :
         calls' = Append(calls, Call("connect", "primary", 0, e))
    /\ out' = out \o << "Connecting to plex...", " failed" >>
    /\ pc' = "returned"
    /\ ExportUnchanged
    /\ UNCHANGED << mode, options, plex, playlist, exc, playlistsBySection >>

ListSwitchOk ==
    /\ mode = "list" /\ pc = "switch"
    /\ plex' = "managed"
    /\ calls' = Append(calls, Call("switchUser", plex, 0, "ok"))
    /\ out' = out \o << "Switching to managed account...", " done" >>
    /\ pc' = "playlists"
    /\ ExportUnchanged
    /\ UNCHANGED << mode, options, playlist, exc, playlistsBySection >>

ListSwitchFail ==
    /\ mode = "list" /\ pc = "switch"
    /\ \E e \in ConnectErrors :
         calls' = Append(calls, Call("switchUser", plex, 0, e))
    /\ out' = out \o << "Switching to managed account...", " failed" >>
    /\ pc' = "returned"
    /\ ExportUnchanged
    /\ UNCHANGED << mode, options, plex, playlist, exc, playlistsBySection >>

(* lines 52-57: group the titles by playlistType, first-seen order kept *)
RECURSIVE GroupBySection(_, _)
GroupBySection(acc, pls) ==
    IF pls = << >> THEN acc
    ELSE LET item == Head(pls)
             withSection ==
                 IF \E k \in 1..Len(acc) : acc[k].section = item.playlistType
                 THEN acc
                 ELSE Append(acc, [section |-> item.playlistType, lists |-> << >>])
             added ==
                 [k \in 1..Len(withSection) |->
                    IF withSection[k].section = item.playlistType
                    THEN [section |-> withSection[k].section,
                          lists |-> Append(withSection[k].lists, item.title)]
                    ELSE withSection[k]]
         IN  GroupBySection(added, Tail(pls))

ListPlaylistsOk ==
    /\ mode = "list" /\ pc = "playlists"
    /\ \E playlists \in Catalogs :
         playlistsBySection' = GroupBySection(<< >>, playlists)
    /\ calls' = Append(calls, Call("playlists", plex, 0, "ok"))
    /\ out' = out \o << "Getting playlists... ", " done", "listing" >>
    /\ pc' = "finished"
    /\ ExportUnchanged
    /\ UNCHANGED << mode, options, plex, playlist, exc >>

ListPlaylistsRaise ==
    /\ mode = "list" /\ pc = "playlists"
    /\ \E e \in ConnectErrors :
         /\ exc' = e
         /\ calls' = Append(calls, Call("playlists", plex, 0, e))
    /\ out' = out \o << "Getting playlists... " >>
    /\ pc' = "raised"
    /\ ExportUnchanged
    /\ UNCHANGED << mode, options, plex, playlist, playlistsBySection >>

----------------------------------------------------------------------------
(* download_playlist: connection, lookup, account switch *)

DlConnectOk ==
    /\ mode = "download" /\ pc = "connect"
    /\ plex' = "primary"
    /\ calls' = Append(calls, Call("connect", "primary", 0, "ok"))
    /\ out' = out \o << "Connecting to plex...", " done" >>
    /\ pc' = "getPlaylist"
    /\ ExportUnchanged
    /\ UNCHANGED << mode, options, playlist, exc, playlistsBySection >>

DlConnectFail ==
    /\ mode = "download" /\ pc = "connect"
    /\ \E e \in ConnectErrors :
         calls' = Append(calls, Call("connect", "primary", 0, e))
    /\ out' = out \o << "Connecting to plex...", " failed" >>
    /\ pc' = "returned"
    /\ ExportUnchanged
    /\ UNCHANGED << mode, options, plex, playlist, exc, playlistsBySection >>

DlGetPlaylistOk ==
    /\ mode = "download" /\ pc = "getPlaylist"
    /\ playlist' = [bound |-> TRUE, server |-> plex]
    /\ calls' = Append(calls, Call("playlist", plex, 0, "ok"))
    /\ out' = out \o << "Getting playlist...", " done" >>
    /\ pc' = IF options.user # None THEN "switch" ELSE "iterate"
    /\ ExportUnchanged
    /\ UNCHANGED << mode, options, plex, exc, playlistsBySection >>

DlGetPlaylistNotFound ==
    /\ mode = "download" /\ pc = "getPlaylist"
    /\ calls' = Append(calls, Call("playlist", plex, 0, "NotFound"))
    /\ out' = out \o << "Getting playlist...", " failed" >>
    /\ pc' = "returned"
    /\ ExportUnchanged
    /\ UNCHANGED << mode, options, plex, playlist, exc, playlistsBySection >>

DlGetPlaylistRaise ==
    /\ mode = "download" /\ pc = "getPlaylist"
    /\ \E e \in ConnectErrors :
         /\ exc' = e
         /\ calls' = Append(calls, Call("playlist", plex, 0, e))
    /\ out' = out \o << "Getting playlist..." >>
    /\ pc' = "raised"
    /\ ExportUnchanged
    /\ UNCHANGED << mode, options, plex, playlist, playlistsBySection >>

DlSwitchOk ==
    /\ mode = "download" /\ pc = "switch"
    /\ plex' = "managed"
    /\ calls' = Append(calls, Call("switchUser", plex, 0, "ok"))
    /\ out' = out \o << "Switching to managed account...", " done" >>
    /\ pc' = "iterate"
    /\ ExportUnchanged
    /\ UNCHANGED << mode, options, playlist, exc, playlistsBySection >>

DlSwitchFail ==
    /\ mode = "download" /\ pc = "switch"
    /\ \E e \in ConnectErrors :
         calls' = Append(calls, Call("switchUser", plex, 0, e))
    /\ out' = out \o << "Switching to managed account...", " failed" >>
    /\ pc' = "returned"
    /\ ExportUnchanged
    /\ UNCHANGED << mode, options, plex, playlist, exc, playlistsBySection >>

----------------------------------------------------------------------------
(* download_playlist: iterate, order, export *)

(* line 93 *)
SaveTo(opts) == DotSlash(IF opts.saveto.isNone THEN Title ELSE opts.saveto.path)

DlIterateOk ==
    /\ mode = "download" /\ pc = "iterate"
    /\ saveto' = SaveTo(options)
    /\ \E its \in PlaylistItems : stored' = its /\ items' = its
    /\ calls' = Append(calls, Call("items", playlist.server, 0, "ok"))
    /\ out' = out \o << "Iterating playlist...", " items found" >>
    /\ pc' = "sort"
    /\ UNCHANGED << mode, options, plex, playlist, idx, i, files, fs, renames,
                    exc, playlistsBySection >>

DlIterateRaise ==
    /\ mode = "download" /\ pc = "iterate"
    /\ saveto' = SaveTo(options)
    /\ \E e \in ConnectErrors :
         /\ exc' = e
         /\ calls' = Append(calls, Call("items", playlist.server, 0, e))
    /\ out' = out \o << "Iterating playlist..." >>
    /\ pc' = "raised"
    /\ UNCHANGED << mode, options, plex, playlist, stored, items, idx, i, files, fs,
                    renames, playlistsBySection >>

Hasattr(item, name) == name \in DOMAIN item.attrs

Getattr(item, name) == item.attrs[name]

(* x put before the elements whose key equals its own *)
Insert_BeforeEquals(s, x, name) ==
    LET p == Cardinality({ k \in 1..Len(s) : Getattr(s[k], name) < Getattr(x, name) })
    IN  SubSeq(s, 1, p) \o << x >> \o SubSeq(s, p + 1, Len(s))

(* x, which follows every element of the sorted s in the original list, put
   after the elements whose key is not greater than its own *)
Insert(s, x, name) ==
    LET p == Cardinality({ k \in 1..Len(s) : Getattr(s[k], name) <= Getattr(x, name) })
    IN  SubSeq(s, 1, p) \o << x >> \o SubSeq(s, p + 1, Len(s))

(* list.sort(key = lambda x: getattr(x, name)): ascending and stable *)
RECURSIVE SortedByKey(_, _)
SortedByKey(its, name) ==
    IF its = << >> THEN << >>
    ELSE Insert(SortedByKey(SubSeq(its, 1, Len(its) - 1), name), its[Len(its)], name)

(* lines 99-103, the sort going through (or not asked for) *)
DlSortOk ==
    /\ mode = "download" /\ pc = "sort"
    /\ IF options.orderby # None
       THEN /\ \A k \in 1..Len(items) : Hasattr(items[k], options.orderby)
            /\ items' = SortedByKey(items, options.orderby)
       ELSE items' = items
    /\ out' = Append(out, "Downloading files...")
    /\ i' = 1
    /\ idx' = 1
    /\ pc' = "download"
    /\ UNCHANGED << mode, options, plex, playlist, stored, saveto, files, fs, calls,
                    renames, exc, playlistsBySection >>

(* the AttributeError caught and the native order kept *)
DlSortRaise_Swallow ==
    /\ mode = "download" /\ pc = "sort"
    /\ options.orderby # None
    /\ \E k \in 1..Len(items) : ~Hasattr(items[k], options.orderby)
    /\ out' = Append(out, "Downloading files...")
    /\ i' = 1
    /\ idx' = 1
    /\ pc' = "download"
    /\ UNCHANGED << mode, options, plex, playlist, stored, saveto, items, files, fs,
                    calls, renames, exc, playlistsBySection >>

(* line 100: getattr raises AttributeError on an item without the attribute *)
DlSortRaise ==
    /\ mode = "download" /\ pc = "sort"
    /\ options.orderby # None
    /\ \E k \in 1..Len(items) : ~Hasattr(items[k], options.orderby)
    /\ exc' = "AttributeError"
    /\ pc' = "raised"
    /\ UNCHANGED << mode, options, plex, playlist, stored, saveto, items, idx, i, files,
                    fs, out, calls, renames, playlistsBySection >>

(* line 106: is the rename skipped *)
SkipsRename_Never(opts) == FALSE

SkipsRename(opts) == opts.keep_original_filename

(* line 105 returning *)
DlDownloadOk ==
    /\ mode = "download" /\ pc = "download" /\ idx <= Len(items)
    /\ LET item == items[idx] IN
         /\ fs' = Written(fs, saveto, item, Len(item.files))
         /\ files' = DownloadPaths(saveto, item)
         /\ calls' = Append(calls, Call("download", playlist.server, item.id, "ok"))
    /\ IF SkipsRename(options)
       THEN idx' = idx + 1 /\ pc' = "download"
       ELSE idx' = idx /\ pc' = "rename"
    /\ UNCHANGED << mode, options, plex, playlist, stored, saveto, items, i, out,
                    renames, exc, playlistsBySection >>

DownloadErrors == ConnectErrors \cup { "IOError" }

Max(a, b) == IF a > b THEN a ELSE b

(* the failed download skipped and the loop going on with the next item *)
DlDownloadRaise_Continue ==
    /\ mode = "download" /\ pc = "download" /\ idx <= Len(items)
    /\ LET item == items[idx] IN
         \E e \in DownloadErrors, n \in 0..Max(0, Len(item.files) - 1) :
           /\ fs' = Written(fs, saveto, item, n)
           /\ exc' = e
           /\ calls' = Append(calls, Call("download", playlist.server, item.id, e))
    /\ idx' = idx + 1
    /\ pc' = "download"
    /\ UNCHANGED << mode, options, plex, playlist, stored, saveto, items, i, files,
                    out, renames, playlistsBySection >>

(* line 105 raising, some of the item's files possibly written already *)
DlDownloadRaise ==
    /\ mode = "download" /\ pc = "download" /\ idx <= Len(items)
    /\ LET item == items[idx] IN
         \E e \in DownloadErrors, n \in 0..Max(0, Len(item.files) - 1) :
           /\ fs' = Written(fs, saveto, item, n)
           /\ exc' = e
           /\ calls' = Append(calls, Call("download", playlist.server, item.id, e))
    /\ pc' = "raised"
    /\ UNCHANGED << mode, options, plex, playlist, stored, saveto, items, idx, i, files,
                    out, renames, playlistsBySection >>

(* line 109 on an empty result *)
DlIndexError ==
    /\ mode = "download" /\ pc = "rename"
    /\ files = << >>
    /\ exc' = "IndexError"
    /\ pc' = "raised"
    /\ UNCHANGED << mode, options, plex, playlist, stored, saveto, items, idx, i, files,
                    fs, out, calls, renames, playlistsBySection >>

(* lines 110-112 *)
NewFile(file, n) == Join(Dirname(file), Format03d(n) \o SplitextExt(file))

(* lines 109-114 *)
DlRenameOk ==
    /\ mode = "download" /\ pc = "rename"
    /\ files # << >>
    /\ LET file == files[1]
           newfile == NewFile(file, i)
       IN  /\ file \in DOMAIN fs
           /\ fs' = Rename(fs, file, newfile)
           /\ renames' = Append(renames, [item |-> items[idx].id, src |-> file,
                                          dst |-> newfile, n |-> i])
           /\ calls' = Append(calls, Call("rename", "local", items[idx].id, "ok"))
    /\ i' = i + 1
    /\ idx' = idx + 1
    /\ pc' = "download"
    /\ UNCHANGED << mode, options, plex, playlist, stored, saveto, items, files, out,
                    exc, playlistsBySection >>

(* line 113 raising *)
DlRenameRaise ==
    /\ mode = "download" /\ pc = "rename"
    /\ files # << >>
    /\ exc' = "IOError"
    /\ calls' = Append(calls, Call("rename", "local", items[idx].id, "IOError"))
    /\ pc' = "raised"
    /\ UNCHANGED << mode, options, plex, playlist, stored, saveto, items, idx, i, files,
                    fs, out, renames, playlistsBySection >>

(* line 115 *)
DlLoopEnd ==
    /\ mode = "download" /\ pc = "download" /\ idx > Len(items)
    /\ out' = Append(out, " done")
    /\ pc' = "finished"
    /\ UNCHANGED << mode, options, plex, playlist, stored, saveto, items, idx, i, files,
                    fs, calls, renames, exc, playlistsBySection >>

Next ==
    \/ ListConnectOk \/ ListConnectFail
    \/ ListSwitchOk \/ ListSwitchFail
    \/ ListPlaylistsOk \/ ListPlaylistsRaise
    \/ DlConnectOk \/ DlConnectFail
    \/ DlGetPlaylistOk \/ DlGetPlaylistNotFound \/ DlGetPlaylistRaise
    \/ DlSwitchOk \/ DlSwitchFail
    \/ DlIterateOk \/ DlIterateRaise
    \/ DlSortOk \/ DlSortRaise
    \/ DlDownloadOk \/ DlDownloadRaise
    \/ DlIndexError \/ DlRenameOk \/ DlRenameRaise
    \/ DlLoopEnd

Spec == Init /\ [][Next]_vars

----------------------------------------------------------------------------
(* Vocabulary of the properties *)

Range(f) == { f[k] : k \in DOMAIN f }

Downloading == mode = "download"

KeepNames == options.keep_original_filename

RemoteOps == { "playlists", "playlist", "items", "download" }

PlaylistOps == { "playlists", "playlist", "items", "download", "rename" }

(* The item of the playlist with the given identity *)
ItemById(id) == CHOOSE it \in Range(stored) : it.id = id

(* The items whose download has returned, in the order of the calls *)
Exported == SelectSeq(calls, LAMBDA c : c.op = "download" /\ c.result = "ok")

(* e is the extension of the file name: empty, or the part of the name from
   its last dot on, a dot that has a character other than a dot before it *)
IsExtensionOf(e, name) ==
    /\ \E n \in 0..Len(name) : e = SubSeq(name, n + 1, Len(name))
    /\ e # << >> =>
         /\ e[1] = Dot
         /\ \A j \in 2..Len(e) : e[j] # Dot
         /\ \E j \in 1..(Len(name) - Len(e)) : name[j] # Dot
    /\ e = << >> =>
         ~ \E d \in 1..Len(name) : name[d] = Dot /\ \E j \in 1..(d-1) : name[j] # Dot

DigitValue(c) == CHOOSE d \in 0..9 : Digit(d) = c

(* p is <dir>/00N<ext>: three digits that read n, then the extension of name *)
IsSequenceName(p, dir, n, name) ==
    /\ Len(p) >= Len(dir) + 3
    /\ SubSeq(p, 1, Len(dir)) = dir
    /\ LET b == SubSeq(p, Len(dir) + 1, Len(p)) IN
         /\ \A j \in 1..3 : \E d \in 0..9 : b[j] = Digit(d)
         /\ 100 * DigitValue(b[1]) + 10 * DigitValue(b[2]) + DigitValue(b[3]) = n
         /\ IsExtensionOf(SubSeq(b, 4, Len(b)), name)

----------------------------------------------------------------------------
(* C1: in a download run without keep_original_filename that completes, one
   rename was made per item, in export order, and the k-th rename took the
   first file the k-th item's download returned to <saveto>00k<ext>, ext
   being that file's own extension: the numbers are 1..count, without gap
   or repeat, item k getting number k. *)
C1_SequentialNames ==
    (Downloading /\ pc = "finished" /\ ~KeepNames) =>
        /\ Len(renames) = Len(items)
        /\ \A k \in 1..Len(items) :
             /\ renames[k].item = items[k].id
             /\ renames[k].n = k
             /\ renames[k].src = saveto \o items[k].files[1]
             /\ IsSequenceName(renames[k].dst, saveto, k, items[k].files[1])

C1_Witness ==
    /\ Downloading /\ pc = "finished" /\ ~KeepNames
    /\ Len(items) = 3
    /\ items[1].files = << F_c_t_g, F_c_s >>
    /\ items[2].files = << F_hid >>
    /\ items[3].files = << F_a_mp3 >>

(* C2 as claimed: once a switchUser call has failed, no playlist was
   enumerated, looked up, iterated, downloaded or renamed, before or after
   it, and no file was written. *)
C2_NoPlaylistAccessOnFailedSwitch ==
    (\E k \in 1..Len(calls) :
        calls[k].op = "switchUser" /\ calls[k].result \in ConnectErrors) =>
        /\ \A j \in 1..Len(calls) : calls[j].op \notin PlaylistOps
        /\ fs = NoFiles

(* C3 as claimed: every remote operation made after a successful switchUser
   goes through the session switchUser returned. *)
C3_NewSessionOnly ==
    \A k \in 1..Len(calls) :
        (calls[k].op = "switchUser" /\ calls[k].result = "ok") =>
            \A j \in (k+1)..Len(calls) :
                calls[j].op \in RemoteOps => calls[j].via = "managed"

(* C4 as claimed: no call of list_playlists or download_playlist that raises
   leaves the function by an uncaught exception, and a function that
   returned early has printed a failure status last. *)
C4_EveryFailureHandled ==
    /\ pc # "raised"
    /\ pc = "returned" => out[Len(out)] = " failed"

(* C5: once a download or a rename of the export loop has raised, nothing
   further happens: no later call (no download or rename of another item, no
   retry), and the files written so far stay as they are, names included. *)
C5_FailureAbortsExport ==
    [][ (exc # None /\ idx >= 1) =>
            UNCHANGED << fs, calls, renames, idx, i, exc >> ]_vars

C5_Witness ==
    /\ exc = "IOError" /\ pc = "raised"
    /\ idx = 2 /\ Len(items) = 3
    /\ Len(renames) = 1
    /\ renames[1].dst \in DOMAIN fs

(* C6: with keep_original_filename no rename is ever made, the counter stays
   at its initial value, and the files of every item whose download has
   returned are in the directory under their original names, which are the
   only names there. *)
C6_KeepOriginalNames ==
    (Downloading /\ KeepNames) =>
        /\ renames = << >>
        /\ \A k \in 1..Len(calls) : calls[k].op # "rename"
        /\ i \in { 0, 1 }
        /\ \A k \in 1..Len(Exported) :
             \A j \in 1..Len(ItemById(Exported[k].item).files) :
                 (saveto \o ItemById(Exported[k].item).files[j]) \in DOMAIN fs
        /\ \A p \in DOMAIN fs :
             \E it \in Range(stored) : \E j \in 1..Len(it.files) :
                 p = saveto \o it.files[j]

C6_Witness ==
    /\ Downloading /\ KeepNames /\ pc = "finished"
    /\ Len(items) = 3
    /\ \E k \in 1..3 : Len(items[k].files) = 2
    /\ Cardinality(DOMAIN fs) >= 3

(* C7: when a sort key is given and every item has it, the items are
   exported in an order that is a permutation of the stored order,
   non-decreasing by the key, and stable: items with equal keys keep the
   relative order they have in the playlist. *)
C7_StableAscendingOrder ==
    (Downloading /\ options.orderby # None /\ idx >= 1) =>
        /\ Len(items) = Len(stored)
        /\ \A k \in 1..Len(stored) : \E j \in 1..Len(items) : items[j] = stored[k]
        /\ \A j, k \in 1..Len(items) : j < k =>
             /\ items[j].attrs[options.orderby] <= items[k].attrs[options.orderby]
             /\ items[j].attrs[options.orderby] = items[k].attrs[options.orderby]
                    => items[j].id < items[k].id
        /\ Len(Exported) <= Len(items)
        /\ \A k \in 1..Len(Exported) : Exported[k].item = items[k].id

C7_Witness ==
    /\ Downloading /\ options.orderby # None /\ pc = "finished"
    /\ Len(items) = 3
    /\ items # stored
    /\ items[1].attrs.year = items[2].attrs.year
    /\ Len(Exported) = 3

(* C8: when a sort key is given and some item lacks it, the run ends at the
   sort with AttributeError, wherever that item stands: the list is left as
   it was, no item is downloaded, no file is renamed, none is written. *)
C8_MissingKeyStopsBeforeExport ==
    (Downloading /\ options.orderby # None
       /\ \E k \in 1..Len(items) : ~Hasattr(items[k], options.orderby)) =>
        /\ pc \in { "sort", "raised" }
        /\ pc = "raised" => exc = "AttributeError"
        /\ items = stored
        /\ \A k \in 1..Len(calls) : calls[k].op \notin { "download", "rename" }
        /\ renames = << >>
        /\ fs = NoFiles

C8_Witness ==
    /\ Downloading /\ exc = "AttributeError" /\ pc = "raised"
    /\ Len(items) = 3
    /\ Hasattr(items[1], options.orderby) /\ Hasattr(items[2], options.orderby)
    /\ ~Hasattr(items[3], options.orderby)

(* C9 as claimed: without keep_original_filename the counter is one more
   than the number of renames made, each rename took the first file of its
   item, and every additional file of an item that was renamed is in place
   under its original name. *)
C9_AdditionalFilesUntouched ==
    (Downloading /\ ~KeepNames /\ idx >= 1) =>
        /\ i = Len(renames) + 1
        /\ \A k \in 1..Len(renames) :
             LET it == ItemById(renames[k].item) IN
               /\ renames[k].src = saveto \o it.files[1]
               /\ \A j \in 2..Len(it.files) :
                    /\ (saveto \o it.files[j]) \in DOMAIN fs
                    /\ fs[saveto \o it.files[j]] = [item |-> it.id, part |-> j]

(* C10 as claimed: a completed run without keep_original_filename over n
   items of one file each leaves n files in the directory. *)
C10_NoExportedFileOverwritten ==
    (Downloading /\ ~KeepNames /\ pc = "finished"
       /\ \A k \in 1..Len(items) : Len(items[k].files) = 1) =>
        Cardinality(DOMAIN fs) = Len(items)
====
